---- MODULE Spec2Model ----
(***************************************************************************)
(* Model of OOP/multi-inheritance/clock.py: the Clock class, a validated   *)
(* 24-hour time of day with set_clock, add_seconds, to_seconds,            *)
(* from_seconds, __eq__ and __hash__.                                      *)
(*                                                                         *)
(* Python objects are records [kind, val]; Clock instances live in a heap  *)
(* (a sequence of attribute records), and an instance is referred to by    *)
(* its index.  Every method is an operator from a heap and its arguments   *)
(* to a result [exc, msg, heap, ret]: the exception raised ("ok" when      *)
(* none), its message, the heap the call leaves, and the value returned.   *)
(***************************************************************************)
EXTENDS Integers, Sequences, FiniteSets, TLC

VARIABLES heap, last, calc, loop

vars == <<heap, last, calc, loop>>

(***************************************************************************)
(* Bounds of the model.                                                    *)
(***************************************************************************)
\* Clock instances alive at once in Spec.
MaxClocks == 2
\* Inputs of SpecFn and SpecLoop range over -MaxDays..MaxDays whole days
\* plus an offset within the day.
MaxDays == 2
\* Cap on the iterations of the normalisation loop in SpecLoop.
MaxIters == 4

(***************************************************************************)
(* Python values.                                                          *)
(***************************************************************************)
PyInt(n) == [kind |-> "int", val |-> n]
\* bool is a subclass of int: True compares, adds and hashes as 1.
PyBool(b) == [kind |-> "bool", val |-> IF b THEN 1 ELSE 0]
\* PyFloat(n) is the float n + 0.5, PyStr(n) the decimal text of n.
PyFloat(n) == [kind |-> "float", val |-> n]
PyStr(n) == [kind |-> "str", val |-> n]
Ref(i) == [kind |-> "Clock", val |-> i]
None == [kind |-> "NoneType", val |-> 0]
NotImplemented == [kind |-> "NotImplementedType", val |-> 0]

\* isinstance(x, int)
IsInstanceInt(x) == x.kind \in {"int", "bool"}
\* isinstance(other, Clock)
IsInstanceClock(x) == x.kind = "Clock"

\* An attribute the instance does not have yet.
NoAttr == -1
\* The object __new__ hands to __init__: no attribute is set.
Blank == [hours |-> NoAttr, minutes |-> NoAttr, seconds |-> NoAttr]

Raise(h, exc, msg) == [exc |-> exc, msg |-> msg, heap |-> h, ret |-> None]
Return(h, v) == [exc |-> "ok", msg |-> "", heap |-> h, ret |-> v]

(***************************************************************************)
(* Clock.set_clock                                                         *)
(***************************************************************************)
\* Bug variant: the inclusive upper bounds 24 / 60 / 60 are accepted.
set_clock_inclusive(h, self, hours, minutes, seconds) ==
    IF ~(\A x \in {hours, minutes, seconds} : IsInstanceInt(x))
    THEN Raise(h, "TypeError", "All time components must be integers")
    ELSE IF ~(0 <= hours.val /\ hours.val <= 24)
    THEN Raise(h, "ValueError", "Hours must be between 0 and 23")
    ELSE IF ~(0 <= minutes.val /\ minutes.val <= 60)
    THEN Raise(h, "ValueError", "Minutes must be between 0 and 59")
    ELSE IF ~(0 <= seconds.val /\ seconds.val <= 60)
    THEN Raise(h, "ValueError", "Seconds must be between 0 and 59")
    ELSE Return([h EXCEPT ![self] = [hours |-> hours.val,
                                     minutes |-> minutes.val,
                                     seconds |-> seconds.val]], Ref(self))

\* Bug variant: each field is assigned as soon as its own check passed.
set_clock_eager(h, self, hours, minutes, seconds) ==
    IF ~(\A x \in {hours, minutes, seconds} : IsInstanceInt(x))
    THEN Raise(h, "TypeError", "All time components must be integers")
    ELSE IF ~(0 <= hours.val /\ hours.val < 24)
    THEN Raise(h, "ValueError", "Hours must be between 0 and 23")
    ELSE LET h1 == [h EXCEPT ![self].hours = hours.val] IN
    IF ~(0 <= minutes.val /\ minutes.val < 60)
    THEN Raise(h1, "ValueError", "Minutes must be between 0 and 59")
    ELSE LET h2 == [h1 EXCEPT ![self].minutes = minutes.val] IN
    IF ~(0 <= seconds.val /\ seconds.val < 60)
    THEN Raise(h2, "ValueError", "Seconds must be between 0 and 59")
    ELSE Return([h2 EXCEPT ![self].seconds = seconds.val], Ref(self))

\* Bug variant: the range checks run in the order seconds, minutes, hours.
set_clock_reversed(h, self, hours, minutes, seconds) ==
    IF ~(\A x \in {hours, minutes, seconds} : IsInstanceInt(x))
    THEN Raise(h, "TypeError", "All time components must be integers")
    ELSE IF ~(0 <= seconds.val /\ seconds.val < 60)
    THEN Raise(h, "ValueError", "Seconds must be between 0 and 59")
    ELSE IF ~(0 <= minutes.val /\ minutes.val < 60)
    THEN Raise(h, "ValueError", "Minutes must be between 0 and 59")
    ELSE IF ~(0 <= hours.val /\ hours.val < 24)
    THEN Raise(h, "ValueError", "Hours must be between 0 and 23")
    ELSE Return([h EXCEPT ![self] = [hours |-> hours.val,
                                     minutes |-> minutes.val,
                                     seconds |-> seconds.val]], Ref(self))

\* Bug variant: any(...) instead of all(...) in the type check.
set_clock_any(h, self, hours, minutes, seconds) ==
    IF ~(\E x \in {hours, minutes, seconds} : IsInstanceInt(x))
    THEN Raise(h, "TypeError", "All time components must be integers")
    ELSE IF ~(0 <= hours.val /\ hours.val < 24)
    THEN Raise(h, "ValueError", "Hours must be between 0 and 23")
    ELSE IF ~(0 <= minutes.val /\ minutes.val < 60)
    THEN Raise(h, "ValueError", "Minutes must be between 0 and 59")
    ELSE IF ~(0 <= seconds.val /\ seconds.val < 60)
    THEN Raise(h, "ValueError", "Seconds must be between 0 and 59")
    ELSE Return([h EXCEPT ![self] = [hours |-> hours.val,
                                     minutes |-> minutes.val,
                                     seconds |-> seconds.val]], Ref(self))

\* Bug variant: the final "return self" is missing.
set_clock_noreturn(h, self, hours, minutes, seconds) ==
    IF ~(\A x \in {hours, minutes, seconds} : IsInstanceInt(x))
    THEN Raise(h, "TypeError", "All time components must be integers")
    ELSE IF ~(0 <= hours.val /\ hours.val < 24)
    THEN Raise(h, "ValueError", "Hours must be between 0 and 23")
    ELSE IF ~(0 <= minutes.val /\ minutes.val < 60)
    THEN Raise(h, "ValueError", "Minutes must be between 0 and 59")
    ELSE IF ~(0 <= seconds.val /\ seconds.val < 60)
    THEN Raise(h, "ValueError", "Seconds must be between 0 and 59")
    ELSE Return([h EXCEPT ![self] = [hours |-> hours.val,
                                     minutes |-> minutes.val,
                                     seconds |-> seconds.val]], None)

\* set_clock(self, hours, minutes, seconds): validate all, then assign all.
set_clock(h, self, hours, minutes, seconds) ==
    IF ~(\A x \in {hours, minutes, seconds} : IsInstanceInt(x))
    THEN Raise(h, "TypeError", "All time components must be integers")
    ELSE IF ~(0 <= hours.val /\ hours.val < 24)
    THEN Raise(h, "ValueError", "Hours must be between 0 and 23")
    ELSE IF ~(0 <= minutes.val /\ minutes.val < 60)
    THEN Raise(h, "ValueError", "Minutes must be between 0 and 59")
    ELSE IF ~(0 <= seconds.val /\ seconds.val < 60)
    THEN Raise(h, "ValueError", "Seconds must be between 0 and 59")
    ELSE Return([h EXCEPT ![self] = [hours |-> hours.val,
                                     minutes |-> minutes.val,
                                     seconds |-> seconds.val]], Ref(self))

(***************************************************************************)
(* Clock(hours, minutes, seconds): __new__ allocates a blank object,       *)
(* __init__ calls set_clock on it.  When __init__ raises, the object is    *)
(* never bound to a name and is dropped.                                   *)
(***************************************************************************)
Clock(h, hours, minutes, seconds) ==
    LET h0 == Append(h, Blank)
        self == Len(h0)
        r == set_clock(h0, self, hours, minutes, seconds)
    IN  IF r.exc = "ok"
        THEN Return(r.heap, Ref(self))
        ELSE Raise(h, r.exc, r.msg)

(***************************************************************************)
(* The "while total_seconds < 0: total_seconds += 24 * 3600" loop.         *)
(***************************************************************************)
WhileCond(total_seconds) == total_seconds < 0

\* Bug variant: "total_seconds + 24 * 3600", the sum is not assigned.
WhileBodyNoAssign(total_seconds) == total_seconds

WhileBody(total_seconds) == total_seconds + 24 * 3600

RECURSIVE While(_)
While(total_seconds) ==
    IF WhileCond(total_seconds)
    THEN While(WhileBody(total_seconds))
    ELSE total_seconds

(***************************************************************************)
(* Clock.add_seconds                                                       *)
(***************************************************************************)
\* Bug variant: minutes are taken from the total, not from the remainder.
add_seconds_minutes(h, self, seconds_to_add) ==
    IF ~IsInstanceInt(seconds_to_add)
    THEN Raise(h, "TypeError", "Seconds to add must be an integer")
    ELSE
    LET total0 == h[self].hours * 3600 + h[self].minutes * 60 + h[self].seconds
        total1 == total0 + seconds_to_add.val
        total_seconds == While(total1) % (24 * 3600)
        hours == total_seconds \div 3600
        remaining == total_seconds % 3600
        minutes == total_seconds \div 60
        seconds == remaining % 60
    IN  set_clock(h, self, PyInt(hours), PyInt(minutes), PyInt(seconds))

add_seconds(h, self, seconds_to_add) ==
    IF ~IsInstanceInt(seconds_to_add)
    THEN Raise(h, "TypeError", "Seconds to add must be an integer")
    ELSE
    LET total0 == h[self].hours * 3600 + h[self].minutes * 60 + h[self].seconds
        total1 == total0 + seconds_to_add.val
        total_seconds == While(total1) % (24 * 3600)
        hours == total_seconds \div 3600
        remaining == total_seconds % 3600
        minutes == remaining \div 60
        seconds == remaining % 60
    IN  set_clock(h, self, PyInt(hours), PyInt(minutes), PyInt(seconds))

(***************************************************************************)
(* Clock.__eq__, Clock.__hash__, Clock.to_seconds                          *)
(***************************************************************************)
__eq__(h, self, other) ==
    IF ~IsInstanceClock(other)
    THEN Return(h, NotImplemented)
    ELSE Return(h, PyBool(/\ h[self].hours = h[other.val].hours
                          /\ h[self].minutes = h[other.val].minutes
                          /\ h[self].seconds = h[other.val].seconds))

\* The builtin hash of a tuple of three small ints: a fixed, non-injective
\* mixing of the elements (the interpreter's own mixing is 64 bits wide).
TupleHash(t) == ((t[1] * 31 + t[2]) * 31 + t[3]) % 65536

\* Bug variant: object's default hash, derived from the instance's identity.
hash_identity(h, self) == Return(h, PyInt(self * 16))

__hash__(h, self) ==
    Return(h, PyInt(TupleHash(<<h[self].hours, h[self].minutes, h[self].seconds>>)))

\* Bug variant: an hour counts 60 seconds.
to_seconds_hour60(h, self) ==
    Return(h, PyInt(h[self].hours * 60 + h[self].minutes * 60 + h[self].seconds))

to_seconds(h, self) ==
    Return(h, PyInt(h[self].hours * 3600 + h[self].minutes * 60 + h[self].seconds))

(***************************************************************************)
(* Clock.from_seconds (classmethod)                                        *)
(***************************************************************************)
\* Bug variant: no normalisation, the total is decomposed as it is.
from_seconds_raw(h, total_seconds) ==
    IF ~IsInstanceInt(total_seconds)
    THEN Raise(h, "TypeError", "Total seconds must be an integer")
    ELSE
    LET total == total_seconds.val
        hours == total \div 3600
        remaining == total % 3600
        minutes == remaining \div 60
        seconds == remaining % 60
    IN  Clock(h, PyInt(hours), PyInt(minutes), PyInt(seconds))

from_seconds(h, total_seconds) ==
    IF ~IsInstanceInt(total_seconds)
    THEN Raise(h, "TypeError", "Total seconds must be an integer")
    ELSE
    LET total == While(total_seconds.val) % (24 * 3600)
        hours == total \div 3600
        remaining == total % 3600
        minutes == remaining \div 60
        seconds == remaining % 60
    IN  Clock(h, PyInt(hours), PyInt(minutes), PyInt(seconds))

(***************************************************************************)
(* Spec: a program that creates Clock instances and calls their methods    *)
(* in any order.  heap holds the live instances; last records the call     *)
(* made by the latest step: the method, the receiver (0 when there is      *)
(* none), the arguments, and what the call raised and returned.            *)
(***************************************************************************)
HourArgs == {PyInt(0), PyInt(12), PyInt(24)}
MinuteArgs == {PyInt(0), PyInt(59), PyStr(30)}
SecondArgs == {PyInt(-1), PyInt(59)}
\* Half days keep the reachable times of day few; SpecFn adds single seconds.
DeltaArgs == {PyInt(-129600), PyInt(-43200), PyInt(43200), PyInt(129600),
              PyFloat(1)}
TotalArgs == {PyInt(-43200), PyInt(0), PyInt(86459), PyStr(0)}
\* A value that is no Clock, for comparisons.
Foreign == PyInt(0)

Instances == 1..Len(heap)

NoCall == [op |-> "none", self |-> 0, args |-> <<>>, exc |-> "ok", msg |-> "",
           ret |-> None]
Called(op, self, args, r) ==
    [op |-> op, self |-> self, args |-> args, exc |-> r.exc, msg |-> r.msg,
     ret |-> r.ret]

\* The inputs of SpecFn and SpecLoop when they are not running.
CalcIdle == [pc |-> "idle", c |-> <<>>, a |-> <<>>, x |-> None, d |-> None,
             exc |-> "ok", msg |-> "", out |-> <<>>, ret |-> None, n |-> 0]
LoopIdle == [pc |-> "idle", fn |-> "none", start |-> 0, total |-> 0, iters |-> 0]

Init ==
    /\ heap = <<>>
    /\ last = NoCall
    /\ calc = CalcIdle
    /\ loop = LoopIdle

DoClock ==
    \E hours \in HourArgs, minutes \in MinuteArgs, seconds \in SecondArgs :
        LET r == Clock(heap, hours, minutes, seconds) IN
        /\ r.exc = "ok" => Len(heap) < MaxClocks
        /\ heap' = r.heap
        /\ last' = Called("Clock", 0, <<hours, minutes, seconds>>, r)
        /\ UNCHANGED <<calc, loop>>

DoSetClock ==
    \E self \in Instances :
    \E hours \in HourArgs, minutes \in MinuteArgs, seconds \in SecondArgs :
        LET r == set_clock(heap, self, hours, minutes, seconds) IN
        /\ heap' = r.heap
        /\ last' = Called("set_clock", self, <<hours, minutes, seconds>>, r)
        /\ UNCHANGED <<calc, loop>>

DoAddSeconds ==
    \E self \in Instances, seconds_to_add \in DeltaArgs :
        LET r == add_seconds(heap, self, seconds_to_add) IN
        /\ heap' = r.heap
        /\ last' = Called("add_seconds", self, <<seconds_to_add>>, r)
        /\ UNCHANGED <<calc, loop>>

DoFromSeconds ==
    \E total_seconds \in TotalArgs :
        LET r == from_seconds(heap, total_seconds) IN
        /\ r.exc = "ok" => Len(heap) < MaxClocks
        /\ heap' = r.heap
        /\ last' = Called("from_seconds", 0, <<total_seconds>>, r)
        /\ UNCHANGED <<calc, loop>>

DoToSeconds ==
    \E self \in Instances :
        LET r == to_seconds(heap, self) IN
        /\ heap' = r.heap
        /\ last' = Called("to_seconds", self, <<>>, r)
        /\ UNCHANGED <<calc, loop>>

DoEq ==
    \E self \in Instances :
    \E other \in {Ref(j) : j \in Instances} \cup {Foreign} :
        LET r == __eq__(heap, self, other) IN
        /\ heap' = r.heap
        /\ last' = Called("__eq__", self, <<other>>, r)
        /\ UNCHANGED <<calc, loop>>

DoHash ==
    \E self \in Instances :
        LET r == __hash__(heap, self) IN
        /\ heap' = r.heap
        /\ last' = Called("__hash__", self, <<>>, r)
        /\ UNCHANGED <<calc, loop>>

Next ==
    \/ DoClock
    \/ DoSetClock
    \/ DoAddSeconds
    \/ DoFromSeconds
    \/ DoToSeconds
    \/ DoEq
    \/ DoHash

Spec == Init /\ [][Next]_vars

\* The three fields of a live instance denote a time of day.
ValidTime(c) ==
    /\ c.hours \in 0..23
    /\ c.minutes \in 0..59
    /\ c.seconds \in 0..59

\* C1: whatever calls were made, successful or failing, every live instance
\* has 0 <= hours <= 23, 0 <= minutes <= 59 and 0 <= seconds <= 59.
C1_AlwaysValid == \A i \in Instances : ValidTime(heap[i])

\* C1 witness: an add_seconds with a negative argument went through on an
\* instance while another instance is alive.
C1_Witness ==
    /\ last.op = "add_seconds"
    /\ last.exc = "ok"
    /\ last.args[1].val < 0
    /\ Len(heap) >= 2
    /\ heap[last.self].hours = 12

\* C2: a set_clock call that fails, with a type error or a range error,
\* leaves every field of every instance as it was before the call.
C2_FailedSetClockChangesNothing ==
    [][(last'.op = "set_clock" /\ last'.exc # "ok") => heap' = heap]_vars

\* C2 witness: a set_clock failed on its minutes or seconds after its hours
\* argument, valid and different from the receiver's hours, had passed.
C2_Witness ==
    /\ last.op = "set_clock"
    /\ last.exc \in {"TypeError", "ValueError"}
    /\ last.args[1].kind = "int"
    /\ last.args[1].val \in 0..23
    /\ last.args[1].val # heap[last.self].hours

Triple(i) == <<heap[i].hours, heap[i].minutes, heap[i].seconds>>

\* C7: in every reachable state, two instances compare equal exactly when
\* their (hours, minutes, seconds) triples are the same, and two instances
\* that compare equal have the same hash, however each got its fields.
C7_EqualIffSameTriple ==
    \A i \in Instances : \A j \in Instances :
        /\ (__eq__(heap, i, Ref(j)).ret = PyBool(TRUE)) <=> (Triple(i) = Triple(j))
        /\ __eq__(heap, i, Ref(j)).ret \in {PyBool(TRUE), PyBool(FALSE)}
        /\ (__eq__(heap, i, Ref(j)).ret = PyBool(TRUE))
              => (__hash__(heap, i).ret = __hash__(heap, j).ret)

\* C7 witness: two distinct instances were compared and found equal.
C7_Witness ==
    /\ last.op = "__eq__"
    /\ last.args[1].kind = "Clock"
    /\ last.args[1].val # last.self
    /\ last.ret = PyBool(TRUE)

\* C10: a successful set_clock or add_seconds returns the receiver and
\* changes no other instance; a successful from_seconds returns an instance
\* that did not exist before and changes no existing one; to_seconds,
\* __eq__ and __hash__ change no instance.
C10_Frame ==
    [][/\ (last'.op \in {"set_clock", "add_seconds"} /\ last'.exc = "ok")
            => /\ last'.ret = Ref(last'.self)
               /\ Len(heap') = Len(heap)
               /\ \A j \in Instances : j # last'.self => heap'[j] = heap[j]
       /\ (last'.op = "from_seconds" /\ last'.exc = "ok")
            => /\ last'.ret.kind = "Clock"
               /\ last'.ret.val \notin Instances
               /\ last'.ret.val \in 1..Len(heap')
               /\ Len(heap') = Len(heap) + 1
               /\ \A j \in Instances : heap'[j] = heap[j]
       /\ last'.op \in {"to_seconds", "__eq__", "__hash__"} => heap' = heap
      ]_vars

\* C10 witness: with two instances alive, add_seconds changed the fields of
\* the second and returned it, the first holding another time.
C10_Witness ==
    /\ Len(heap) = 2
    /\ last.op = "add_seconds"
    /\ last.exc = "ok"
    /\ last.self = 2
    /\ last.ret = Ref(2)
    /\ heap[1] # heap[2]

(***************************************************************************)
(* SpecFn: the methods as functions of their inputs.  Init draws one test  *)
(* case: a receiver calc.c (a heap holding one constructed Clock), three   *)
(* constructor arguments calc.a, a total calc.x and a delta calc.d.  Each  *)
(* action runs one method, or one short script, on the case and records    *)
(* what it raised (exc, msg), the heap it left (out), what it returned     *)
(* (ret) and the integer it computed (n).                                  *)
(***************************************************************************)
DaySeconds == 86400
Offsets == {0, 1, 3665, 45045, 86399}
DayInts == {k * DaySeconds + o : k \in -MaxDays..MaxDays, o \in Offsets}
NonInts == {PyFloat(1), PyStr(1)}
IntArgs == {PyInt(n) : n \in DayInts} \cup {PyBool(TRUE)}
\* Every hour, and the first, second, a middle and the last minute / second.
FnHours == 0..23
FnMinutes == {0, 1, 30, 59}
FnSeconds == {0, 1, 45, 59}
FnClocks ==
    {Clock(<<>>, PyInt(hh), PyInt(mm), PyInt(ss)).heap :
        hh \in FnHours, mm \in FnMinutes, ss \in FnSeconds}
\* Constructor arguments: below, at and above each bound, and non-integers.
FnHourArgs == {PyInt(-1), PyInt(0), PyInt(23), PyInt(24)} \cup NonInts \cup {PyBool(TRUE)}
FnMinuteArgs == {PyInt(-1), PyInt(0), PyInt(59), PyInt(60)} \cup NonInts \cup {PyBool(TRUE)}
FnSecondArgs == {PyInt(-1), PyInt(0), PyInt(59), PyInt(60)} \cup NonInts \cup {PyBool(TRUE)}
Noon == Clock(<<>>, PyInt(12), PyInt(30), PyInt(45)).heap
Midnight == Clock(<<>>, PyInt(0), PyInt(0), PyInt(0)).heap
Zeros == <<PyInt(0), PyInt(0), PyInt(0)>>

Case(c, a, x, d) ==
    [pc |-> "start", c |-> c, a |-> a, x |-> x, d |-> d,
     exc |-> "ok", msg |-> "", out |-> <<>>, ret |-> None, n |-> 0]

InitFn ==
    /\ heap = <<>>
    /\ last = NoCall
    /\ loop = LoopIdle
    /\ \/ \E c \in FnClocks, d \in IntArgs \cup NonInts :
              calc = Case(c, Zeros, PyInt(0), d)
       \/ \E x \in IntArgs \cup NonInts, d \in IntArgs \cup NonInts :
              calc = Case(Noon, Zeros, x, d)
       \/ \E c \in {Noon, Midnight} :
          \E hours \in FnHourArgs, minutes \in FnMinuteArgs, seconds \in FnSecondArgs :
              calc = Case(c, <<hours, minutes, seconds>>, PyInt(0), PyInt(0))

Ran(pc, r, n) ==
    [calc EXCEPT !.pc = pc, !.exc = r.exc, !.msg = r.msg, !.out = r.heap,
                 !.ret = r.ret, !.n = n]

\* Clock(a[1], a[2], a[3])
RunClock ==
    /\ calc.pc = "start"
    /\ calc' = Ran("Clock", Clock(<<>>, calc.a[1], calc.a[2], calc.a[3]), 0)
    /\ UNCHANGED <<heap, last, loop>>

\* c.set_clock(a[1], a[2], a[3])
RunSetClock ==
    /\ calc.pc = "start"
    /\ calc' = Ran("set_clock", set_clock(calc.c, 1, calc.a[1], calc.a[2], calc.a[3]), 0)
    /\ UNCHANGED <<heap, last, loop>>

\* c.add_seconds(d)
RunAddSeconds ==
    /\ calc.pc = "start"
    /\ calc' = Ran("add_seconds", add_seconds(calc.c, 1, calc.d), 0)
    /\ UNCHANGED <<heap, last, loop>>

\* Clock.from_seconds(x).to_seconds()
RunFromSeconds ==
    /\ calc.pc = "start"
    /\ LET r == from_seconds(<<>>, calc.x) IN
       calc' = IF r.exc = "ok"
               THEN Ran("from_seconds", r, to_seconds(r.heap, r.ret.val).ret.val)
               ELSE Ran("from_seconds", r, 0)
    /\ UNCHANGED <<heap, last, loop>>

\* Clock.from_seconds(c.to_seconds()) == c
RunRoundTrip ==
    /\ calc.pc = "start"
    /\ LET n == to_seconds(calc.c, 1).ret
           r == from_seconds(calc.c, n)
       IN  calc' = IF r.exc = "ok"
                   THEN Ran("round_trip", [r EXCEPT !.ret = __eq__(r.heap, 1, r.ret).ret], n.val)
                   ELSE Ran("round_trip", r, n.val)
    /\ UNCHANGED <<heap, last, loop>>

\* Clock.from_seconds(x).add_seconds(d) == Clock.from_seconds(x + d)
RunAdditive ==
    /\ calc.pc = "start"
    /\ IsInstanceInt(calc.x) /\ IsInstanceInt(calc.d)
    /\ LET r1 == from_seconds(<<>>, calc.x)
           r2 == add_seconds(r1.heap, 1, calc.d)
           r3 == from_seconds(r2.heap, PyInt(calc.x.val + calc.d.val))
       IN  calc' = IF r1.exc # "ok" THEN Ran("additive", r1, 0)
                   ELSE IF r2.exc # "ok" THEN Ran("additive", r2, 0)
                   ELSE IF r3.exc # "ok" THEN Ran("additive", r3, 0)
                   ELSE Ran("additive", [r3 EXCEPT !.ret = __eq__(r3.heap, r2.ret.val, r3.ret).ret], 0)
    /\ UNCHANGED <<heap, last, loop>>

NextFn ==
    \/ RunClock
    \/ RunSetClock
    \/ RunAddSeconds
    \/ RunFromSeconds
    \/ RunRoundTrip
    \/ RunAdditive

SpecFn == InitFn /\ [][NextFn]_vars

\* C3: for all integers x and d, from_seconds(x).add_seconds(d) and
\* from_seconds(x + d) both succeed and give equal clocks.
C3_AddSecondsAdditive ==
    calc.pc = "additive" =>
        /\ calc.exc = "ok"
        /\ calc.ret = PyBool(TRUE)
        /\ Len(calc.out) = 2
        /\ calc.out[1] = calc.out[2]

\* C3 witness: a delta below minus one day took a positive x below zero.
C3_Witness ==
    /\ calc.pc = "additive"
    /\ calc.x.val > 0
    /\ calc.d.val < -DaySeconds
    /\ calc.x.val + calc.d.val < 0
    /\ calc.out[1].seconds # 0

\* C4: for every valid clock, to_seconds returns hours*3600 + minutes*60 +
\* seconds, a number in [0, 86399], and from_seconds of it is a clock equal
\* to the original; for every integer n in [0, 86399],
\* from_seconds(n).to_seconds() = n.
C4_RoundTrip ==
    /\ calc.pc = "round_trip" =>
          /\ calc.n = calc.c[1].hours * 3600 + calc.c[1].minutes * 60 + calc.c[1].seconds
          /\ calc.n \in 0..86399
          /\ calc.exc = "ok"
          /\ calc.ret = PyBool(TRUE)
          /\ calc.out = <<calc.c[1], calc.c[1]>>
    /\ (calc.pc = "from_seconds" /\ calc.x.kind = "int" /\ calc.x.val \in 0..86399) =>
          /\ calc.exc = "ok"
          /\ calc.n = calc.x.val

\* C4 witness: the last second of the day went to 86399 and back.
C4_Witness ==
    /\ calc.pc = "round_trip"
    /\ calc.c[1] = [hours |-> 23, minutes |-> 59, seconds |-> 59]
    /\ calc.n = 86399
    /\ calc.out[2] = calc.c[1]

\* The arguments that are integers (bool included, as in Python).
Integral(v) == v.kind \in {"int", "bool"}
FirstViolation(a) ==
    IF a[1].val \notin 0..23 THEN "Hours must be between 0 and 23"
    ELSE IF a[2].val \notin 0..59 THEN "Minutes must be between 0 and 59"
    ELSE "Seconds must be between 0 and 59"
InBounds(a) == a[1].val \in 0..23 /\ a[2].val \in 0..59 /\ a[3].val \in 0..59

\* C5: when the three arguments are integers and at least one is out of its
\* bound, construction and set_clock fail with a range error, and the error
\* is that of the first violated bound in the order hours, minutes, seconds.
C5_RangeErrorFirstViolation ==
    (/\ calc.pc \in {"Clock", "set_clock"}
     /\ \A i \in 1..3 : Integral(calc.a[i])
     /\ ~InBounds(calc.a)) =>
        /\ calc.exc = "ValueError"
        /\ calc.msg = FirstViolation(calc.a)

\* C5 witness: set_clock was given hours above and seconds below their
\* bounds and reported the hours.
C5_Witness ==
    /\ calc.pc = "set_clock"
    /\ calc.a[1] = PyInt(24)
    /\ calc.a[2] = PyInt(59)
    /\ calc.a[3] = PyInt(-1)
    /\ calc.exc = "ValueError"
    /\ calc.msg = "Hours must be between 0 and 23"

\* C6: construction and set_clock fail with a type error whenever one of the
\* three arguments is no integer, whatever the others are; add_seconds and
\* from_seconds fail with a type error when their argument is no integer,
\* and the failing add_seconds leaves the clock as it was.
C6_TypeErrorFirst ==
    /\ (/\ calc.pc \in {"Clock", "set_clock"}
        /\ \E i \in 1..3 : ~Integral(calc.a[i])) =>
            calc.exc = "TypeError"
    /\ (calc.pc = "add_seconds" /\ ~Integral(calc.d)) =>
            calc.exc = "TypeError" /\ calc.out = calc.c
    /\ (calc.pc = "from_seconds" /\ ~Integral(calc.x)) =>
            calc.exc = "TypeError" /\ calc.out = <<>>

\* C6 witness: set_clock was given a float for the hours together with an
\* out-of-range integer for the minutes, and raised the type error.
C6_Witness ==
    /\ calc.pc = "set_clock"
    /\ calc.a[1].kind = "float"
    /\ calc.a[2] = PyInt(60)
    /\ calc.exc = "TypeError"

\* The time of day t seconds after midnight, for t in [0, 86400).
TimeOfDay(t) ==
    [hours |-> t \div 3600, minutes |-> (t % 3600) \div 60, seconds |-> t % 60]

\* C8: for every valid clock and every integer delta d, add_seconds(d) raises
\* nothing and leaves the clock at the time of day
\* (hours*3600 + minutes*60 + seconds + d) mod 86400; from_seconds(n) raises
\* nothing and yields the time of day n mod 86400.  23:59:59 plus 1 is
\* 00:00:00 and 00:00:00 minus 1 is 23:59:59.
C8_FlooredModulo ==
    /\ (calc.pc = "add_seconds" /\ Integral(calc.d)) =>
          /\ calc.exc = "ok"
          /\ calc.out = <<TimeOfDay((calc.c[1].hours * 3600 + calc.c[1].minutes * 60
                                     + calc.c[1].seconds + calc.d.val) % 86400)>>
          /\ (calc.c[1] = [hours |-> 23, minutes |-> 59, seconds |-> 59] /\ calc.d.val = 1)
                => calc.out[1] = [hours |-> 0, minutes |-> 0, seconds |-> 0]
          /\ (calc.c[1] = [hours |-> 0, minutes |-> 0, seconds |-> 0] /\ calc.d.val = -1)
                => calc.out[1] = [hours |-> 23, minutes |-> 59, seconds |-> 59]
          /\ (calc.c[1] = [hours |-> 12, minutes |-> 30, seconds |-> 45] /\ calc.d.val = 3665)
                => calc.out[1] = [hours |-> 13, minutes |-> 31, seconds |-> 50]
    /\ (calc.pc = "from_seconds" /\ Integral(calc.x)) =>
          /\ calc.exc = "ok"
          /\ calc.out = <<TimeOfDay(calc.x.val % 86400)>>

\* C8 witness: 00:00:00 minus one second gave 23:59:59.
C8_Witness ==
    /\ calc.pc = "add_seconds"
    /\ calc.c = Midnight
    /\ calc.d = PyInt(-1)
    /\ calc.out = <<[hours |-> 23, minutes |-> 59, seconds |-> 59]>>

(***************************************************************************)
(* SpecLoop: the normalisation loop of add_seconds and from_seconds, one   *)
(* statement per step.  loop.total is the local total_seconds once the     *)
(* type check has passed: the argument in from_seconds, the flattened      *)
(* time plus the delta in add_seconds.  loop.iters counts the executions   *)
(* of the loop body.  The interpreter runs the next statement of a call    *)
(* whenever there is one, hence the weak fairness.                         *)
(***************************************************************************)
LoopClocks == {Midnight, Noon, Clock(<<>>, PyInt(23), PyInt(59), PyInt(59)).heap}

Entered(fn, total_seconds) ==
    [pc |-> "while", fn |-> fn, start |-> total_seconds, total |-> total_seconds,
     iters |-> 0]

InitLoop ==
    /\ heap = <<>>
    /\ last = NoCall
    /\ calc = CalcIdle
    /\ \/ \E x \in DayInts : loop = Entered("from_seconds", x)
       \/ \E c \in LoopClocks, d \in DayInts :
              loop = Entered("add_seconds", to_seconds(c, 1).ret.val + d)

\* while total_seconds < 0: total_seconds += 24 * 3600
LoopIterate ==
    /\ loop.pc = "while"
    /\ WhileCond(loop.total)
    /\ loop.iters < MaxIters
    /\ loop' = [loop EXCEPT !.total = WhileBody(loop.total), !.iters = @ + 1]
    /\ UNCHANGED <<heap, last, calc>>

\* The loop test fails: control reaches the statement after the loop.
LoopExit ==
    /\ loop.pc = "while"
    /\ ~WhileCond(loop.total)
    /\ loop' = [loop EXCEPT !.pc = "modulo"]
    /\ UNCHANGED <<heap, last, calc>>

\* total_seconds %= 24 * 3600, then the loop-free rest of the method.
LoopReturn ==
    /\ loop.pc = "modulo"
    /\ loop' = [loop EXCEPT !.pc = "returned", !.total = loop.total % (24 * 3600)]
    /\ UNCHANGED <<heap, last, calc>>

NextLoop ==
    \/ LoopIterate
    \/ LoopExit
    \/ LoopReturn

SpecLoop == InitLoop /\ [][NextLoop]_vars /\ WF_vars(NextLoop)

\* C9: the loop "while total_seconds < 0: total_seconds += 86400" ends for
\* every integer total: entered with a negative total it is left, after at
\* least one iteration, with a total in [0, 86399]; entered with a
\* non-negative total it runs no iteration; and the call then returns.
C9_LoopTerminates ==
    /\ [](loop.pc = "modulo" =>
            IF loop.start < 0
            THEN loop.iters > 0 /\ loop.total \in 0..86399
            ELSE loop.iters = 0 /\ loop.total = loop.start)
    /\ <>(loop.pc = "returned")

\* C9 witness: an add_seconds call entered the loop more than one day below
\* zero and returned after two iterations.
C9_Witness ==
    /\ loop.pc = "returned"
    /\ loop.fn = "add_seconds"
    /\ loop.start < -DaySeconds
    /\ loop.iters = 2
    /\ loop.total \in 0..86399
====
